---- MODULE Spec2Model ----
(***************************************************************************)
(* Model of src/shopsurfer_agent_ui.py: the request handler                *)
(* search_products, the credential check validate_api_keys, and the        *)
(* four-task sequential crew built and run by ShoppingCrew.                *)
(*                                                                         *)
(* A string is a sequence of text fragments (Seq(STRING)); concatenation   *)
(* is \o and "s contains u" is contiguous-subsequence containment.         *)
(* The handler is run by the UI framework in worker threads; the set       *)
(* Threads holds the handler invocations that may be in flight together.   *)
(***************************************************************************)
EXTENDS Integers, Sequences, FiniteSets, TLC

VARIABLES
    pc,          \* pc[t]: position of handler invocation t in search_products
    openai_key,  \* openai_key[t]: first argument of the call
    serper_key,  \* serper_key[t]: second argument of the call
    query,       \* query[t]: third argument of the call
    tasks,       \* tasks[t]: the task list of t's ShoppingCrew (<<>>: no crew)
    outputs,     \* outputs[t]: stored outputs of the tasks executed so far
    prompt,      \* prompt[t]: prompt handed to the LLM by the latest stage
    result,      \* result[t]: value returned by the call (when pc[t] = "returned")
    environ,     \* os.environ restricted to the two credential variables
    exc,         \* exc[t]: str(e) of the exception caught by the call, if any
    log,         \* log[t]: history of the steps taken by t's current call
    lastValid,   \* history: credential pair of the latest call that passed validation
    lastOutcome  \* history: how the latest call that has returned ended

vars == <<pc, openai_key, serper_key, query, tasks, outputs, prompt, result,
          exc, environ, log, lastValid, lastOutcome>>

----------------------------------------------------------------------------
(* Inputs                                                                  *)

\* The worker that serves the calls when they arrive one after another.
Worker == "t1"

Threads == {Worker, "t2"}

\* Longest whitespace-only string typed into a credential field.
MaxPad == 2

\* The whitespace-only string of length n.
Whitespace(n) == [i \in 1..n |-> IF i % 2 = 1 THEN " " ELSE "\t"]

\* Credentials that pass validation: plain, and padded with whitespace.
ValidKeyInputs == {<<"a">>, <<" ", "b", " ">>}

\* Credential strings typed into the form: empty, whitespace only, valid.
KeyInputs == {Whitespace(n) : n \in 0..MaxPad} \cup ValidKeyInputs

\* Credential strings of the calls that are served concurrently.
ConcKeyInputs == {<<>>} \cup ValidKeyInputs

QueryInputs == {<<"monitor">>, <<"espresso">>}

\* Query of the calls that are served concurrently.
ConcQueryInputs == {<<"monitor">>}

\* Text an LLM call may produce for a task (not determined by the prompt).
LLMReplies == {<<"x">>, <<"y">>}

\* str(e) of an exception raised while the crew is built or run.
ErrorMessages == {<<>>, <<"timeout">>}

----------------------------------------------------------------------------
(* Strings                                                                 *)

\* The characters str.strip() removes.
IsSpace(c) == c \in {" ", "\t", "\n", "\r"}

RECURSIVE LStrip(_)
LStrip(s) == IF s # <<>> /\ IsSpace(Head(s)) THEN LStrip(Tail(s)) ELSE s

RECURSIVE RStrip(_)
RStrip(s) ==
    IF s # <<>> /\ IsSpace(s[Len(s)]) THEN RStrip(SubSeq(s, 1, Len(s) - 1)) ELSE s

\* str.strip()
Strip(s) == RStrip(LStrip(s))

\* u occurs in s as a contiguous piece
Contains(s, u) ==
    \E i \in 1..(Len(s) + 1) : i + Len(u) - 1 <= Len(s) /\ SubSeq(s, i, i + Len(u) - 1) = u

----------------------------------------------------------------------------
(* ShoppingCrew                                                            *)

\* ShoppingCrew.create_agents: the four agents, in the order returned.
create_agents ==
    << [role |-> "Product Specification Verifier",
        tools |-> {"search_tool", "website_search_tool"}],
       [role |-> "Product Research Specialist",
        tools |-> {"search_tool", "website_search_tool", "scrape_tool"}],
       [role |-> "Deals Analysis Expert",
        tools |-> {"search_tool", "website_search_tool", "scrape_tool"}],
       [role |-> "Shopping Report Specialist",
        tools |-> {}] >>

\* Variant: the deal-finding description embeds the query as well.
create_tasks_DealQuery(q) ==
    << [name |-> "verification_task",
        description |-> <<"Verify exact product specifications for: ">> \o q
                            \o <<" Required Steps: ... Return: ...">>,
        agent |-> create_agents[1],
        context |-> <<>>,
        expected_output |-> <<"Detailed product verification findings">>],
       [name |-> "research_task",
        description |-> <<"Research this product in detail: ">> \o q
                            \o <<" Required Steps: ... Return findings including: ...">>,
        agent |-> create_agents[2],
        context |-> <<1>>,
        expected_output |-> <<"Detailed product research findings which should ...">>],
       [name |-> "deal_finding_task",
        description |-> <<"Using the research findings, analyze current deals for: ">> \o q,
        agent |-> create_agents[3],
        context |-> <<1, 2>>,
        expected_output |-> <<"Detailed deals analysis which should include: ...">>],
       [name |-> "report_task",
        description |-> <<"Create a comprehensive shopping report including: ...">>,
        agent |-> create_agents[4],
        context |-> <<1, 2, 3>>,
        expected_output |-> <<"Final shopping report which includes ...">>] >>

\* ShoppingCrew.create_tasks: the four tasks, in the order returned.  A
\* context entry is the position in this list of the task it refers to.
create_tasks(q) ==
    << [name |-> "verification_task",
        description |-> <<"Verify exact product specifications for: ">> \o q
                            \o <<" Required Steps: ... Return: ...">>,
        agent |-> create_agents[1],
        context |-> <<>>,
        expected_output |-> <<"Detailed product verification findings">>],
       [name |-> "research_task",
        description |-> <<"Research this product in detail: ">> \o q
                            \o <<" Required Steps: ... Return findings including: ...">>,
        agent |-> create_agents[2],
        context |-> <<1>>,
        expected_output |-> <<"Detailed product research findings which should ...">>],
       [name |-> "deal_finding_task",
        description |-> <<"Using the research findings, analyze current deals: ...">>,
        agent |-> create_agents[3],
        context |-> <<1, 2>>,
        expected_output |-> <<"Detailed deals analysis which should include: ...">>],
       [name |-> "report_task",
        description |-> <<"Create a comprehensive shopping report including: ...">>,
        agent |-> create_agents[4],
        context |-> <<1, 2, 3>>,
        expected_output |-> <<"Final shopping report which includes ...">>] >>

\* Text of the stored outputs of the tasks listed in ctx, in the order of ctx.
RECURSIVE ContextText(_, _)
ContextText(ctx, outs) ==
    IF ctx = <<>> THEN <<>>
    ELSE outs[Head(ctx)] \o ContextText(Tail(ctx), outs)

\* Variant: only the output of the last context task reaches the prompt.
EffectivePrompt_LastOnly(task, outs) ==
    task.description \o task.expected_output
        \o (IF task.context = <<>> THEN <<>> ELSE outs[task.context[Len(task.context)]])

\* Crew(process=Process.sequential): the prompt of a task is its description
\* and expected output followed by the outputs of its context tasks.
EffectivePrompt(task, outs) ==
    task.description \o task.expected_output \o ContextText(task.context, outs)

----------------------------------------------------------------------------
(* Presentation: validate_api_keys and search_products                     *)

ValidationMessage == <<"Please enter both API keys">>

ErrorPrefix == <<"An error occurred: ">>

None == <<"None">>

\* Variant: compares with the empty string without strip().
validate_api_keys_NoStrip(ok, sk) ==
    IF ok = <<>> \/ sk = <<>> THEN ValidationMessage ELSE None

validate_api_keys(ok, sk) ==
    IF Strip(ok) = <<>> \/ Strip(sk) = <<>> THEN ValidationMessage ELSE None

\* os.environ[name] = value
SetEnv(env, name, value) ==
    [n \in DOMAIN env \cup {name} |-> IF n = name THEN value ELSE env[n]]

InFlight(t) == pc[t] \notin {"idle", "returned"}

Init ==
    /\ pc = [t \in Threads |-> "idle"]
    /\ openai_key = [t \in Threads |-> <<>>]
    /\ serper_key = [t \in Threads |-> <<>>]
    /\ query = [t \in Threads |-> <<>>]
    /\ tasks = [t \in Threads |-> <<>>]
    /\ outputs = [t \in Threads |-> <<>>]
    /\ prompt = [t \in Threads |-> <<>>]
    /\ result = [t \in Threads |-> None]
    /\ exc = [t \in Threads |-> None]
    /\ environ = <<>>
    /\ log = [t \in Threads |-> <<>>]
    /\ lastValid = <<>>
    /\ lastOutcome = "none"

\* search_products is called and validates its arguments (lines 214-219).
Call(t, ok, sk, q) ==
    /\ ~InFlight(t)
    /\ openai_key' = [openai_key EXCEPT ![t] = ok]
    /\ serper_key' = [serper_key EXCEPT ![t] = sk]
    /\ query' = [query EXCEPT ![t] = q]
    /\ IF validate_api_keys(ok, sk) # None
       THEN /\ result' = [result EXCEPT ![t] = validate_api_keys(ok, sk)]
            /\ pc' = [pc EXCEPT ![t] = "returned"]
            /\ log' = [log EXCEPT ![t] = <<"return">>]
            /\ lastOutcome' = "rejected"
            /\ UNCHANGED lastValid
       ELSE /\ result' = [result EXCEPT ![t] = None]
            /\ pc' = [pc EXCEPT ![t] = "set_openai"]
            /\ log' = [log EXCEPT ![t] = <<>>]
            /\ lastValid' = <<ok, sk>>
            /\ UNCHANGED lastOutcome
    /\ exc' = [exc EXCEPT ![t] = None]
    /\ UNCHANGED <<tasks, outputs, prompt, environ>>

\* Variant: the write waits until no other call is between its first write
\* and its return.
SetOpenAIKey_Locked(t) ==
    /\ pc[t] = "set_openai"
    /\ \A u \in Threads \ {t} : pc[u] \notin {"set_serper", "create", "running", "done"}
    /\ environ' = SetEnv(environ, "OPENAI_API_KEY", openai_key[t])
    /\ pc' = [pc EXCEPT ![t] = "set_serper"]
    /\ log' = [log EXCEPT ![t] = Append(@, "OPENAI_API_KEY")]
    /\ UNCHANGED <<openai_key, serper_key, query, tasks, outputs, prompt, result, exc,
                   lastValid, lastOutcome>>

\* os.environ["OPENAI_API_KEY"] = openai_key
SetOpenAIKey(t) ==
    /\ pc[t] = "set_openai"
    /\ environ' = SetEnv(environ, "OPENAI_API_KEY", openai_key[t])
    /\ pc' = [pc EXCEPT ![t] = "set_serper"]
    /\ log' = [log EXCEPT ![t] = Append(@, "OPENAI_API_KEY")]
    /\ UNCHANGED <<openai_key, serper_key, query, tasks, outputs, prompt, result, exc,
                   lastValid, lastOutcome>>

\* os.environ["SERPER_API_KEY"] = serper_key
SetSerperKey(t) ==
    /\ pc[t] = "set_serper"
    /\ environ' = SetEnv(environ, "SERPER_API_KEY", serper_key[t])
    /\ pc' = [pc EXCEPT ![t] = "create"]
    /\ log' = [log EXCEPT ![t] = Append(@, "SERPER_API_KEY")]
    /\ UNCHANGED <<openai_key, serper_key, query, tasks, outputs, prompt, result, exc,
                   lastValid, lastOutcome>>

\* Variant: the error string also carries the outputs stored so far.
HandleException_Partial(t, msg) ==
    /\ exc' = [exc EXCEPT ![t] = msg]
    /\ result' = [result EXCEPT ![t] = ErrorPrefix \o msg
                           \o ContextText([i \in 1..Len(outputs[t]) |-> i], outputs[t])]
    /\ pc' = [pc EXCEPT ![t] = "returned"]
    /\ tasks' = [tasks EXCEPT ![t] = <<>>]
    /\ outputs' = [outputs EXCEPT ![t] = <<>>]
    /\ prompt' = [prompt EXCEPT ![t] = <<>>]
    /\ lastOutcome' = "error"
    /\ UNCHANGED <<openai_key, serper_key, query, environ, lastValid>>

\* Variant: the credential variables are removed when a run fails.
HandleException_Restore(t, msg) ==
    /\ exc' = [exc EXCEPT ![t] = msg]
    /\ result' = [result EXCEPT ![t] = ErrorPrefix \o msg]
    /\ pc' = [pc EXCEPT ![t] = "returned"]
    /\ tasks' = [tasks EXCEPT ![t] = <<>>]
    /\ outputs' = [outputs EXCEPT ![t] = <<>>]
    /\ prompt' = [prompt EXCEPT ![t] = <<>>]
    /\ environ' = <<>>
    /\ lastOutcome' = "error"
    /\ UNCHANGED <<openai_key, serper_key, query, lastValid>>

\* The except branch of search_products: the call returns the error string
\* and the crew, if any, is dropped with the frame.
HandleException(t, msg) ==
    /\ exc' = [exc EXCEPT ![t] = msg]
    /\ result' = [result EXCEPT ![t] = ErrorPrefix \o msg]
    /\ pc' = [pc EXCEPT ![t] = "returned"]
    /\ tasks' = [tasks EXCEPT ![t] = <<>>]
    /\ outputs' = [outputs EXCEPT ![t] = <<>>]
    /\ prompt' = [prompt EXCEPT ![t] = <<>>]
    /\ lastOutcome' = "error"
    /\ UNCHANGED <<openai_key, serper_key, query, environ, lastValid>>

\* Variant: one crew, built for the first query, serves every call.
CreateCrew_Cached(t) ==
    /\ pc[t] = "create"
    /\ tasks' = [tasks EXCEPT ![t] = create_tasks(<<"monitor">>)]
    /\ outputs' = [outputs EXCEPT ![t] = <<>>]
    /\ prompt' = [prompt EXCEPT ![t] = <<>>]
    /\ pc' = [pc EXCEPT ![t] = "running"]
    /\ log' = [log EXCEPT ![t] = Append(@, "ShoppingCrew")]
    /\ UNCHANGED <<openai_key, serper_key, query, result, exc, environ, lastValid,
                   lastOutcome>>

\* ShoppingCrew() and the first half of run(): tools, agents, tasks and the
\* Crew object are built; no task has an output yet.
CreateCrew(t) ==
    /\ pc[t] = "create"
    /\ tasks' = [tasks EXCEPT ![t] = create_tasks(query[t])]
    /\ outputs' = [outputs EXCEPT ![t] = <<>>]
    /\ prompt' = [prompt EXCEPT ![t] = <<>>]
    /\ pc' = [pc EXCEPT ![t] = "running"]
    /\ log' = [log EXCEPT ![t] = Append(@, "ShoppingCrew")]
    /\ UNCHANGED <<openai_key, serper_key, query, result, exc, environ, lastValid,
                   lastOutcome>>

\* An exception raised while the tools, agents, tasks or Crew are built.
CreateCrewRaises(t, msg) ==
    /\ pc[t] = "create"
    /\ log' = [log EXCEPT ![t] = log[t] \o <<"ShoppingCrew", "raise", "return">>]
    /\ HandleException(t, msg)

\* Variant: the first task is executed again after it has completed.
NextTask_Restart(t) == IF Len(outputs[t]) = 1 THEN 1 ELSE Len(outputs[t]) + 1

\* Position in the task list of the task crew.kickoff() executes next.
NextTask(t) == Len(outputs[t]) + 1

\* crew.kickoff(), one task of the sequential process: the task's agent is
\* prompted and the reply is stored as the task's output.
RunStage(t, reply) ==
    /\ pc[t] = "running"
    /\ LET n == NextTask(t)
       IN /\ prompt' = [prompt EXCEPT ![t] = EffectivePrompt(tasks[t][n], outputs[t])]
          /\ outputs' = [outputs EXCEPT ![t] = Append(@, reply)]
          /\ log' = [log EXCEPT ![t] = Append(@, tasks[t][n].name)]
          /\ pc' = [pc EXCEPT ![t] = IF n = Len(tasks[t]) THEN "done" ELSE "running"]
    /\ UNCHANGED <<openai_key, serper_key, query, tasks, result, exc, environ, lastValid,
                   lastOutcome>>

\* Variant: the failed task is left to be executed again.
RunStageRaises_Retry(t, msg) ==
    /\ pc[t] = "running"
    /\ log' = [log EXCEPT ![t] = log[t] \o <<tasks[t][NextTask(t)].name, "raise">>]
    /\ UNCHANGED <<pc, openai_key, serper_key, query, tasks, outputs, prompt, result, exc,
                   environ, lastValid, lastOutcome>>

\* crew.kickoff(), a task whose LLM or tool call raises: the exception leaves
\* kickoff() and run() and reaches the except branch.
RunStageRaises(t, msg) ==
    /\ pc[t] = "running"
    /\ log' = [log EXCEPT ![t] = log[t] \o <<tasks[t][NextTask(t)].name, "raise", "return">>]
    /\ HandleException(t, msg)

\* Variant: the output of the first task is returned.
ReturnResult_First(t) ==
    /\ pc[t] = "done"
    /\ result' = [result EXCEPT ![t] = outputs[t][1]]
    /\ pc' = [pc EXCEPT ![t] = "returned"]
    /\ tasks' = [tasks EXCEPT ![t] = <<>>]
    /\ outputs' = [outputs EXCEPT ![t] = <<>>]
    /\ prompt' = [prompt EXCEPT ![t] = <<>>]
    /\ log' = [log EXCEPT ![t] = Append(@, "return")]
    /\ lastOutcome' = "result"
    /\ UNCHANGED <<openai_key, serper_key, query, exc, environ, lastValid>>

\* kickoff() has executed the last task: run() and search_products return
\* the crew's result, the output of the last task.
ReturnResult(t) ==
    /\ pc[t] = "done"
    /\ result' = [result EXCEPT ![t] = outputs[t][Len(outputs[t])]]
    /\ pc' = [pc EXCEPT ![t] = "returned"]
    /\ tasks' = [tasks EXCEPT ![t] = <<>>]
    /\ outputs' = [outputs EXCEPT ![t] = <<>>]
    /\ prompt' = [prompt EXCEPT ![t] = <<>>]
    /\ log' = [log EXCEPT ![t] = Append(@, "return")]
    /\ lastOutcome' = "result"
    /\ UNCHANGED <<openai_key, serper_key, query, exc, environ, lastValid>>

\* The steps of a call after validation.
Step(t) ==
    \/ SetOpenAIKey(t)
    \/ SetSerperKey(t)
    \/ CreateCrew(t)
    \/ \E msg \in ErrorMessages : CreateCrewRaises(t, msg)
    \/ \E reply \in LLMReplies : RunStage(t, reply)
    \/ \E msg \in ErrorMessages : RunStageRaises(t, msg)
    \/ ReturnResult(t)

\* A call is accepted only while no other call is in flight.
SeqCall(t, ok, sk, q) ==
    /\ \A u \in Threads : ~InFlight(u)
    /\ Call(t, ok, sk, q)

\* Calls served one at a time (the handler blocks until the run is over).
Next ==
    \E t \in {Worker} :
        \/ \E ok \in KeyInputs, sk \in KeyInputs, q \in QueryInputs : SeqCall(t, ok, sk, q)
        \/ Step(t)

Spec == Init /\ [][Next]_vars

\* Calls served by concurrent worker threads.
ConcNext ==
    \E t \in Threads :
        \/ \E ok \in ConcKeyInputs, sk \in ConcKeyInputs, q \in ConcQueryInputs :
               Call(t, ok, sk, q)
        \/ Step(t)

ConcSpec == Init /\ [][ConcNext]_vars

----------------------------------------------------------------------------
(* Properties                                                              *)

\* s is empty or consists only of whitespace
Blank(s) == \A i \in 1..Len(s) : s[i] \in {" ", "\t", "\n", "\r"}

IsPrefix(p, s) == Len(p) <= Len(s) /\ SubSeq(s, 1, Len(p)) = p

\* The four stages in the order verification, research, deal finding, report.
StageOrder == <<"verification_task", "research_task", "deal_finding_task", "report_task">>

IsStage(e) == \E i \in 1..Len(StageOrder) : StageOrder[i] = e

\* The stages a call has started, in the order it started them.
Stages(t) == SelectSeq(log[t], IsStage)

\* The steps of a call that runs all four stages.
FullRun == <<"OPENAI_API_KEY", "SERPER_API_KEY", "ShoppingCrew">> \o StageOrder \o <<"return">>

RECURSIVE Flatten(_)
Flatten(ss) == IF ss = <<>> THEN <<>> ELSE Head(ss) \o Flatten(Tail(ss))

\* The two credential variables as a pair (<<>> while either is unset).
EnvPair ==
    IF {"OPENAI_API_KEY", "SERPER_API_KEY"} \subseteq DOMAIN environ
    THEN <<environ["OPENAI_API_KEY"], environ["SERPER_API_KEY"]>>
    ELSE <<>>

\* C1: a call with an empty or whitespace-only credential returns exactly
\* the validation message, and neither builds a crew nor runs a stage,
\* whatever the query is.
C1_BlankKeyRejected ==
    \A t \in Threads :
        (Blank(openai_key[t]) \/ Blank(serper_key[t])) /\ pc[t] # "idle" =>
            /\ pc[t] = "returned"
            /\ result[t] = ValidationMessage
            /\ log[t] = <<"return">>
            /\ tasks[t] = <<>> /\ outputs[t] = <<>>

C1_Witness ==
    \E t \in Threads :
        /\ pc[t] = "returned" /\ result[t] = ValidationMessage
        /\ openai_key[t] # <<>> /\ Blank(openai_key[t]) /\ ~Blank(serper_key[t])

\* C2: an exception raised while the crew is built or while a stage runs is
\* not propagated: the call returns "An error occurred: " followed by the
\* exception message, and the returned string contains the output of no
\* stage that had completed.
C2_ErrorString ==
    [][\A t \in Threads :
          exc'[t] # None =>
              /\ pc'[t] = "returned"
              /\ IsPrefix(<<"An error occurred: ">>, result'[t])
              /\ result'[t] = <<"An error occurred: ">> \o exc'[t]
              /\ \A i \in 1..Len(outputs[t]) : ~Contains(result'[t], outputs[t][i])]_vars

C2_Witness ==
    \E t \in Threads :
        /\ pc[t] = "returned" /\ exc[t] = <<"timeout">>
        /\ result[t] = <<"An error occurred: ", "timeout">>
        /\ Stages(t) = SubSeq(StageOrder, 1, 3)

\* C3: the stages of a call run in the order verification, research, deal
\* finding, report; a stage starts only when all earlier stages have stored
\* their output, and no stage runs twice in one call.
C3_StageOrder ==
    \A t \in Threads :
        /\ IsPrefix(Stages(t), StageOrder)
        /\ pc[t] \in {"running", "done"} => Len(outputs[t]) = Len(Stages(t))
        /\ pc[t] = "done" => Stages(t) = StageOrder

C3_Witness == \E t \in Threads : pc[t] = "done" /\ Stages(t) = StageOrder

\* C4: the context of task N is the list of tasks 1..N-1, and the prompt of
\* stage N contains the stored outputs of all earlier stages, in order.
C4_ContextChaining ==
    \A t \in Threads :
        /\ \A n \in 1..Len(tasks[t]) : tasks[t][n].context = [i \in 1..(n - 1) |-> i]
        /\ pc[t] \in {"running", "done"} /\ outputs[t] # <<>> =>
               LET n == Len(outputs[t])
               IN /\ IsPrefix(tasks[t][n].description, prompt[t])
                  /\ Contains(prompt[t], Flatten(SubSeq(outputs[t], 1, n - 1)))
                  /\ Len(prompt[t]) >= Len(tasks[t][n].description) + (n - 1)

C4_Witness ==
    \E t \in Threads :
        /\ pc[t] = "done"
        /\ outputs[t][1] = <<"x">> /\ outputs[t][2] = <<"y">> /\ outputs[t][3] = <<"y">>
        /\ Contains(prompt[t], <<"x", "y", "y">>)

\* C5: an exception in stage i ends the call: the failed stage is the last
\* stage of the call, it ran once, no later stage runs, and the call has
\* returned with its crew gone.
C5_FailureAborts ==
    \A t \in Threads :
        \A k \in 1..Len(log[t]) :
            log[t][k] = "raise" =>
                /\ k = Len(log[t]) - 1 /\ log[t][Len(log[t])] = "return"
                /\ IsPrefix(Stages(t), StageOrder)
                /\ pc[t] = "returned" /\ exc[t] # None
                /\ tasks[t] = <<>> /\ outputs[t] = <<>>

C5_Witness ==
    \E t \in Threads :
        log[t] = <<"OPENAI_API_KEY", "SERPER_API_KEY", "ShoppingCrew",
                   "verification_task", "research_task", "raise", "return">>

\* C6: the writes of the two credential variables take no lock: a call
\* that has passed validation can always perform its next write, whatever
\* the other calls are doing, and every call that builds or runs a crew
\* has performed both writes.
C6_UnlockedWrites ==
    \A t \in Threads :
        /\ pc[t] = "set_openai" => ENABLED SetOpenAIKey(t)
        /\ pc[t] = "set_serper" => ENABLED SetSerperKey(t)
        /\ pc[t] \in {"create", "running", "done"} =>
               IsPrefix(<<"OPENAI_API_KEY", "SERPER_API_KEY">>, log[t])

\* A crew runs while the environment holds one key of its own call and one
\* key written by a concurrent call.
C6_Witness ==
    \E t, u \in Threads :
        /\ t # u /\ pc[t] = "running" /\ InFlight(u)
        /\ EnvPair = <<openai_key[u], serper_key[t]>>
        /\ openai_key[u] # openai_key[t] /\ serper_key[u] # serper_key[t]

\* C7: a valid call writes both credentials, then builds its crew, then
\* runs it; when all four stages complete the call returns the output of
\* the report stage.
C7_HandlerOrder ==
    [][\A t \in Threads :
          /\ exc'[t] = None /\ result'[t] # ValidationMessage => IsPrefix(log'[t], FullRun)
          /\ pc[t] = "done" /\ pc'[t] = "returned" =>
                 /\ Len(outputs[t]) = 4
                 /\ result'[t] = outputs[t][4]
                 /\ log'[t] = FullRun]_vars

C7_Witness ==
    \E t \in Threads : pc[t] = "returned" /\ log[t] = FullRun /\ result[t] = <<"y">>

\* C8: once a call has returned, with whatever outcome, a further call with
\* valid credentials is accepted, and a crew that is about to run its first
\* stage is new: its tasks are built from the query of that call and none
\* has an output.
C8_NextRequestFresh ==
    \A t \in Threads :
        /\ (\A u \in Threads : ~InFlight(u)) /\ pc[t] = "returned" =>
               \A q \in QueryInputs : ENABLED SeqCall(t, <<"a">>, <<"a">>, q)
        /\ pc[t] \in {"set_openai", "set_serper", "create"} =>
               tasks[t] = <<>> /\ outputs[t] = <<>> /\ exc[t] = None /\ result[t] = None
        /\ pc[t] = "running" /\ Stages(t) = <<>> =>
               /\ outputs[t] = <<>> /\ prompt[t] = <<>>
               /\ Len(tasks[t]) = 4
               /\ tasks[t][NextTask(t)].name = "verification_task"
               /\ Contains(tasks[t][1].description, query[t])

\* A call runs all four stages after a call that ended with an error string.
C8_Witness ==
    \E t \in Threads :
        /\ lastOutcome = "error"
        /\ pc[t] = "done" /\ Stages(t) = StageOrder /\ query[t] = <<"espresso">>

\* C9 as stated: the descriptions of the research, deal-finding and report
\* tasks do not depend on the query.
C9_Original ==
    \A t \in Threads :
        \A n \in 2..Len(tasks[t]) :
            /\ ~Contains(tasks[t][n].description, query[t])
            /\ \A q \in QueryInputs : tasks[t][n].description = create_tasks(q)[n].description

\* C9 amended: the query is interpolated into the descriptions of the
\* verification and research tasks and into nothing else: the descriptions
\* of the deal-finding and report tasks, and the agent, context and expected
\* output of every task, do not depend on the query.
C9_QueryInterpolation ==
    \A t \in Threads :
        \A n \in 1..Len(tasks[t]) :
            /\ n \in {1, 2} => Contains(tasks[t][n].description, query[t])
            /\ n \in {3, 4} =>
                   /\ ~Contains(tasks[t][n].description, query[t])
                   /\ \A q \in QueryInputs :
                          tasks[t][n].description = create_tasks(q)[n].description
            /\ \A q \in QueryInputs :
                   /\ tasks[t][n].name = create_tasks(q)[n].name
                   /\ tasks[t][n].agent = create_tasks(q)[n].agent
                   /\ tasks[t][n].context = create_tasks(q)[n].context
                   /\ tasks[t][n].expected_output = create_tasks(q)[n].expected_output

C9_Witness ==
    \E t \in Threads :
        /\ Len(tasks[t]) = 4 /\ query[t] = <<"espresso">>
        /\ Contains(tasks[t][2].description, <<"espresso">>)

\* C10: a rejected call leaves the credential variables unchanged; a valid
\* call overwrites both and never restores them, so whenever no call is in
\* flight the environment holds the pair of the latest call that passed
\* validation (unset if there was none).
C10_EnvFrame ==
    [][/\ environ' # environ =>
             \E t \in Threads :
                 /\ pc[t] \in {"set_openai", "set_serper"} /\ pc'[t] # pc[t]
                 /\ ~Blank(openai_key[t]) /\ ~Blank(serper_key[t])
       /\ \A t \in Threads :
             /\ pc'[t] = "returned" /\ result'[t] = ValidationMessage /\ log'[t] # log[t] =>
                    environ' = environ
             /\ pc[t] \in {"create", "running", "done"} =>
                    environ' = environ /\ EnvPair = <<openai_key[t], serper_key[t]>>
       /\ (\A t \in Threads : ~InFlight(t)') => EnvPair' = lastValid']_vars

\* A failed run has returned and the environment still holds its padded keys.
C10_Witness ==
    \E t \in Threads :
        /\ pc[t] = "returned" /\ exc[t] # None
        /\ \A u \in Threads : ~InFlight(u)
        /\ EnvPair = <<openai_key[t], serper_key[t]>>
        /\ openai_key[t] = <<" ", "b", " ">>

====
